---- MODULE Spec2Model ----
(***************************************************************************)
(* Model of src/src/ai/mod.rs: the evolvable feed-forward network (Net),   *)
(* its factories and the recombination operator crossover_mutate with its  *)
(* two structural mutations add_neurons and add_hidden_layer.              *)
(*                                                                         *)
(* Numbers.  An f32 value is a dyadic fixed-point integer counting ticks.  *)
(* A fresh draw of the randomness source is a multiple of Unit ticks, and  *)
(* Unit is 2^MaxCalls, so the halving of crossover_mutate is exact through *)
(* MaxCalls successive recombinations (f32 rounding of a sum is not        *)
(* modelled).  Probabilities are percents; a draw of Uniform::new(0.0,1.0) *)
(* is an integer in 0..99, so it is always below 100 (1.0) and never below *)
(* 0.                                                                      *)
(*                                                                         *)
(* Indices.  The code's 0-based (o, i) position of a row-major block with  *)
(* row stride in_dim is element o * in_dim + i + 1 of a TLA+ sequence.     *)
(* Layer indices (hid_idx, pos, target) keep the code's 0-based values.    *)
(***************************************************************************)
EXTENDS Integers, Sequences, FiniteSets, TLC

INPUT_DIM == 16
OUTPUT_DIM == 5
MIN_HIDDEN_UNITS == 8
MAX_HIDDEN_UNITS == 40
MAX_HIDDEN_LAYERS == 4

\* Bounds of the model.
MaxCalls == 2      \* crossover_mutate calls in one behaviour
MaxMade == 2       \* genomes the factories build in one behaviour
MaxEvals == 2      \* forward calls in one behaviour
NumInputs == 8     \* input vectors a caller may pass to forward

Unit == 2 ^ MaxCalls
Tenth == 8 * Unit  \* 0.1, the scale of every fresh weight

VARIABLES
    pool,    \* the genomes built so far, each in storage of its own
    made,    \* made[j]: how pool[j] was built
    status,  \* "ok", or "panic" once a call has panicked
    calls,   \* calls made so far
    last     \* the latest crossover_mutate or forward call: its inputs, its
             \* draws, its stages and its result

vars == <<pool, made, status, calls, last>>

Min(a, b) == IF a < b THEN a ELSE b

(***************************************************************************)
(* The randomness source.  The k-th value of a stream started in state     *)
(* seed; the streams differ between seeds and between neighbouring k.      *)
(***************************************************************************)
Mix(seed, k) == (seed * 29 + k * 7 + (k \div 5) * 3 + (k \div 16)) % 64

\* Uniform::new(lo, hi) panics unless lo < hi.
UniformOk(lo, hi) == lo < hi

\* The values Uniform::new(lo, hi) can return over the integers.
UniformRange(lo, hi) == lo .. (hi - 1)

UniformInclusiveRange(lo, hi) == lo .. hi

\* Uniform::new(-scale, scale).sample: a multiple of Unit in [-scale, scale).
Sample(seed, k, scale) == (Mix(seed, k) % ((2 * scale) \div Unit)) * Unit - scale

\* Uniform::new(0.0, 1.0).sample, as a percent in 0..99.
U01(seed, k) == (seed * 37 + k * 41 + (k \div 3) * 17) % 100

(***************************************************************************)
(* Layer and Net.                                                          *)
(***************************************************************************)
LayerNewRandom(in_dim, out_dim, scale, seed) ==
    [in_dim |-> in_dim, out_dim |-> out_dim,
     w |-> [k \in 1 .. (out_dim * in_dim) |-> Sample(seed, k, scale)],
     b |-> [k \in 1 .. out_dim |-> Sample(seed, out_dim * in_dim + k, scale)]]

\* FromHiddenSizes without `in_dim = h`: every layer takes INPUT_DIM values.
FromHiddenSizesUnchained(sizes, seed) ==
    [j \in 1 .. (Len(sizes) + 1) |->
        LayerNewRandom(INPUT_DIM,
                       IF j <= Len(sizes) THEN sizes[j] ELSE OUTPUT_DIM,
                       Tenth, seed * 8 + j)]

FromHiddenSizes(sizes, seed) ==
    [j \in 1 .. (Len(sizes) + 1) |->
        LayerNewRandom(IF j = 1 THEN INPUT_DIM ELSE sizes[j - 1],
                       IF j <= Len(sizes) THEN sizes[j] ELSE OUTPUT_DIM,
                       Tenth, seed * 8 + j)]

\* rand_hidden_units: the values Uniform::new_inclusive(8, 40) returns.
RandHiddenUnits == UniformInclusiveRange(MIN_HIDDEN_UNITS, MAX_HIDDEN_UNITS)

\* Net::new_random with first width h1, coin (percent) and second width h2.
NewRandom(h1, coin, h2, seed) ==
    FromHiddenSizes(IF coin < 25 THEN <<h1, h2>> ELSE <<h1>>, seed)

\* The draws of rand_hidden_units the model follows where a second or an
\* inserted layer is sized: the two ends of its range.
HiddenDraws ==
    {h \in RandHiddenUnits : \/ \A x \in RandHiddenUnits : h <= x
                             \/ \A x \in RandHiddenUnits : h >= x}

\* The parameters a caller passes: all zero but the magnitude; the values of
\* the documented scenario (0.05, 0.1, 0.3, 0.2); the same with magnitude 0.
ParamSets ==
    {[mutation_rate |-> 0, mutation_mag |-> Tenth,
      p_add_neurons |-> 0, p_add_layer |-> 0],
     [mutation_rate |-> 5, mutation_mag |-> Tenth,
      p_add_neurons |-> 30, p_add_layer |-> 20],
     [mutation_rate |-> 5, mutation_mag |-> 0,
      p_add_neurons |-> 30, p_add_layer |-> 20]}

\* The hidden widths of the genomes a behaviour starts from.
StartPools == {<< <<20>>, <<12, 16>> >>, << <<38>>, <<40, 8, 8, 8>> >>}

(***************************************************************************)
(* crossover_mutate, step 2: blend the overlapping block.                  *)
(***************************************************************************)
Half(x) == x \div 2

\* BlendLayer reading the other parent's block as if its rows were as long as
\* the overlap (oi = o * in_min + i).
BlendLayerPacked(c, ot) ==
    LET in_min == Min(c.in_dim, ot.in_dim)
        out_min == Min(c.out_dim, ot.out_dim)
    IN [c EXCEPT
          !.w = [k \in 1 .. Len(c.w) |->
                   LET o == (k - 1) \div c.in_dim
                       i == (k - 1) % c.in_dim
                   IN IF o < out_min /\ i < in_min
                      THEN Half(c.w[k] + ot.w[o * in_min + i + 1])
                      ELSE c.w[k]],
          !.b = [k \in 1 .. Len(c.b) |->
                   IF k - 1 < out_min THEN Half(c.b[k] + ot.b[k]) ELSE c.b[k]]]

BlendLayer(c, ot) ==
    LET in_min == Min(c.in_dim, ot.in_dim)
        out_min == Min(c.out_dim, ot.out_dim)
    IN [c EXCEPT
          !.w = [k \in 1 .. Len(c.w) |->
                   LET o == (k - 1) \div c.in_dim
                       i == (k - 1) % c.in_dim
                   IN IF o < out_min /\ i < in_min
                      THEN Half(c.w[k] + ot.w[o * ot.in_dim + i + 1])
                      ELSE c.w[k]],
          !.b = [k \in 1 .. Len(c.b) |->
                   IF k - 1 < out_min THEN Half(c.b[k] + ot.b[k]) ELSE c.b[k]]]

\* Blend keeping only the layers both parents have (a zip of the two).
BlendZipped(tpl, other) ==
    [l \in 1 .. Min(Len(tpl), Len(other)) |-> BlendLayer(tpl[l], other[l])]

Blend(tpl, other) ==
    [l \in 1 .. Len(tpl) |->
        IF l > Len(other) THEN tpl[l] ELSE BlendLayer(tpl[l], other[l])]

(***************************************************************************)
(* crossover_mutate, step 3: per-value noise.                              *)
(***************************************************************************)
MutateLayer(layer, rate, mag, seed) ==
    [layer EXCEPT
       !.w = [k \in 1 .. Len(layer.w) |->
                IF U01(seed, k) < rate
                THEN layer.w[k] + Sample(seed, k, mag) ELSE layer.w[k]],
       !.b = [k \in 1 .. Len(layer.b) |->
                IF U01(seed, Len(layer.w) + k) < rate
                THEN layer.b[k] + Sample(seed, Len(layer.w) + k, mag)
                ELSE layer.b[k]]]

Mutate(net, rate, mag, seed) ==
    [l \in 1 .. Len(net) |-> MutateLayer(net[l], rate, mag, seed * 8 + l)]

(***************************************************************************)
(* add_neurons(net, hid_idx, rng) with the growth count drawn as add.      *)
(***************************************************************************)
\* NewOut without the cap.
NewOutUncapped(out_dim, add) == out_dim + add

NewOut(out_dim, add) == Min(out_dim + add, MAX_HIDDEN_UNITS)

GrowRows(l, new_out, seed) ==
    [l EXCEPT
       !.w = [k \in 1 .. (new_out * l.in_dim) |->
                IF k <= l.out_dim * l.in_dim THEN l.w[k]
                ELSE Sample(seed, k, Tenth)],
       !.b = [k \in 1 .. new_out |->
                IF k <= l.out_dim THEN l.b[k]
                ELSE Sample(seed, new_out * l.in_dim + k, Tenth)],
       !.out_dim = new_out]

\* GrowColumns copying the old block as one run (as the rows are copied),
\* the old row stride forgotten.
GrowColumnsFlat(next, new_in, seed) ==
    [next EXCEPT
       !.w = [k \in 1 .. (next.out_dim * new_in) |->
                IF k <= Len(next.w) THEN next.w[k]
                ELSE Sample(seed + 1, k, Tenth)],
       !.in_dim = new_in]

GrowColumns(next, new_in, seed) ==
    LET old_in == next.in_dim
        in_min == Min(old_in, new_in)
    IN [next EXCEPT
          !.w = [k \in 1 .. (next.out_dim * new_in) |->
                   LET o == (k - 1) \div new_in
                       i == (k - 1) % new_in
                   IN IF i < in_min THEN next.w[o * old_in + i + 1]
                      ELSE Sample(seed + 1, k, Tenth)],
          !.in_dim = new_in]

AddNeurons(net, hid_idx, add, seed) ==
    LET len_layers == Len(net) IN
    IF len_layers < 2 THEN net
    ELSE IF hid_idx + 1 >= len_layers THEN net
    ELSE LET l == net[hid_idx + 1]
             next == net[hid_idx + 2]
             new_out == NewOut(l.out_dim, add)
         IN IF new_out = l.out_dim THEN net
            ELSE [net EXCEPT ![hid_idx + 1] = GrowRows(l, new_out, seed),
                             ![hid_idx + 2] = GrowColumns(next, new_out, seed)]

(***************************************************************************)
(* add_hidden_layer(net, pos, rng) with the new width drawn as new_units.  *)
(***************************************************************************)
InsertAt(s, pos, x) ==
    [j \in 1 .. (Len(s) + 1) |->
        IF j <= pos THEN s[j] ELSE IF j = pos + 1 THEN x ELSE s[j - 1]]

\* Rewire without `next.in_dim = new_units`.
RewireKeepsDim(next, new_units, seed) ==
    [next EXCEPT
       !.w = [k \in 1 .. (next.out_dim * new_units) |-> Sample(seed, k, Tenth)]]

Rewire(next, new_units, seed) ==
    [next EXCEPT
       !.w = [k \in 1 .. (next.out_dim * new_units) |-> Sample(seed, k, Tenth)],
       !.in_dim = new_units]

AddHiddenLayer(net, pos, new_units, seed) ==
    IF Len(net) = 0 THEN net
    ELSE LET prev_in == IF pos = 0 THEN INPUT_DIM ELSE net[pos].out_dim
             new_layer == LayerNewRandom(prev_in, new_units, Tenth, seed)
             ins == InsertAt(net, pos, new_layer)
         IN IF pos + 1 < Len(ins)
            THEN [ins EXCEPT ![pos + 2] = Rewire(ins[pos + 2], new_units, seed + 1)]
            ELSE ins

(***************************************************************************)
(* crossover_mutate, steps 4 and 5: the outcomes of one structural step,   *)
(* over every draw of the randomness source.  p is the probability         *)
(* (percent) the caller passes.                                            *)
(***************************************************************************)
\* The draws of u01 the model follows: both ends of [0, 1) and the middle.
U01Draws == {0, 50, 99}

\* Fires with `<=` for `<`.
FiresAtOrBelow(p) == {u <= p : u \in U01Draws}

Fires(p) == {u < p : u \in U01Draws}

WidthOutcomes(child, p, seed) ==
    UNION {IF ~fire \/ Len(child) < 2
           THEN {[fire |-> fire, target |-> -1, add |-> 0, net |-> child]}
           ELSE {[fire |-> TRUE, target |-> target, add |-> add,
                  net |-> AddNeurons(child, target, add, seed)] :
                    target \in UniformRange(0, Len(child) - 1),
                    add \in UniformInclusiveRange(1, 4)}
           : fire \in Fires(p)}

\* The insertion positions the code can draw for a child.
DepthPositions(child) ==
    IF Len(child) <= 1 THEN {0} ELSE UniformRange(0, Len(child) - 1)

\* DepthGate without the limit on the number of layers.
DepthGateNoLimit(child, fire) == fire

\* DepthGate with `<=` for `<`: a fifth hidden layer is let in.
DepthGateOffByOne(child, fire) == fire /\ Len(child) - 1 <= MAX_HIDDEN_LAYERS

DepthGate(child, fire) == fire /\ Len(child) - 1 < MAX_HIDDEN_LAYERS

DepthOutcomes(child, p, seed) ==
    UNION {IF ~DepthGate(child, fire)
           THEN {[fire |-> fire, done |-> FALSE, pos |-> -1, units |-> 0,
                  net |-> child]}
           ELSE {[fire |-> TRUE, done |-> TRUE, pos |-> pos, units |-> units,
                  net |-> AddHiddenLayer(child, pos, units, seed)] :
                    pos \in DepthPositions(child), units \in HiddenDraws}
           : fire \in Fires(p)}

\* ChildSlot without the clone: the child is built in the template's storage.
ChildSlotShared(pl, tplIdx) == tplIdx

\* The child is built in storage of its own (tpl.clone()): a fresh slot.
ChildSlot(pl, tplIdx) == Len(pl) + 1

Store(pl, slot, g) ==
    [j \in 1 .. (IF slot > Len(pl) THEN slot ELSE Len(pl)) |->
        IF j = slot THEN g ELSE pl[j]]

NoCall ==
    [op |-> "none", dad |-> 0, mom |-> 0, template_is_dad |-> FALSE,
     params |-> [mutation_rate |-> 0, mutation_mag |-> 0,
                 p_add_neurons |-> 0, p_add_layer |-> 0],
     blended |-> <<>>, mutated |-> <<>>, widened |-> <<>>,
     width |-> [fire |-> FALSE, target |-> -1, add |-> 0],
     depth |-> [fire |-> FALSE, done |-> FALSE, pos |-> -1, units |-> 0],
     positions |-> {}, child |-> 0]

\* One crossover_mutate call on two different genomes of the pool, the one
\* built first as dad; the coin makes either of them the template.
CrossoverMutate ==
    /\ status = "ok"
    /\ calls < MaxCalls
    /\ \E dad \in 1 .. Len(pool), mom \in 1 .. Len(pool), coin \in {0, 50},
          p \in ParamSets :
         LET template_is_dad == coin < 50
             seed == 16 * (calls + 1)
             tplIdx == IF template_is_dad THEN dad ELSE mom
             otherIdx == IF template_is_dad THEN mom ELSE dad
             call == [NoCall EXCEPT !.op = "crossover", !.dad = dad, !.mom = mom,
                                    !.template_is_dad = template_is_dad,
                                    !.params = p]
         IN dad < mom /\
            IF ~UniformOk(-p.mutation_mag, p.mutation_mag)
            THEN /\ status' = "panic"
                 /\ last' = [call EXCEPT !.op = "panic"]
                 /\ calls' = calls + 1
                 /\ UNCHANGED <<pool, made>>
            ELSE \E blended \in {Blend(pool[tplIdx], pool[otherIdx])} :
                 \E mutated \in {Mutate(blended, p.mutation_rate, p.mutation_mag,
                                         seed + 1)} :
                 \E wo \in WidthOutcomes(mutated, p.p_add_neurons, seed + 2) :
                 \E do \in DepthOutcomes(wo.net, p.p_add_layer, seed + 4) :
                   LET slot == ChildSlot(pool, tplIdx) IN
                   /\ pool' = Store(pool, slot, do.net)
                   /\ made' = Store(made, slot, [by |-> "crossover", sizes |-> <<>>])
                   /\ last' = [call EXCEPT
                                 !.blended = blended, !.mutated = mutated,
                                 !.widened = wo.net,
                                 !.width = [fire |-> wo.fire, target |-> wo.target,
                                            add |-> wo.add],
                                 !.depth = [fire |-> do.fire, done |-> do.done,
                                            pos |-> do.pos, units |-> do.units],
                                 !.positions = DepthPositions(wo.net),
                                 !.child = slot]
                   /\ calls' = calls + 1
                   /\ status' = "ok"

(***************************************************************************)
(* The recombination system: two valid genomes, then crossover_mutate      *)
(* calls on any genomes built so far.                                      *)
(***************************************************************************)
Init ==
    /\ \E sp \in StartPools :
         /\ pool = [j \in 1 .. Len(sp) |-> FromHiddenSizes(sp[j], j)]
         /\ made = [j \in 1 .. Len(sp) |->
                      [by |-> "from_hidden_sizes", sizes |-> sp[j]]]
    /\ status = "ok"
    /\ calls = 0
    /\ last = NoCall

Next == CrossoverMutate

Spec == Init /\ [][Next]_vars

(***************************************************************************)
(* The factories on their own: each call builds one genome, which the      *)
(* model keeps as the only member of the pool.                             *)
(***************************************************************************)
\* The width lists a caller passes to from_hidden_sizes.
SizeLists ==
    {<<>>, <<20>>, <<12, 16>>, <<8, 8, 8, 8>>, <<40, 8, 8, 8>>,
     <<8, 8, 8, 8, 8>>, <<7>>, <<41>>, <<8, 3, 40>>}

FromHiddenSizesAct ==
    /\ status = "ok"
    /\ calls < MaxMade
    /\ \E sizes \in SizeLists :
         /\ pool' = <<FromHiddenSizes(sizes, calls + 1)>>
         /\ made' = <<[by |-> "from_hidden_sizes", sizes |-> sizes]>>
    /\ calls' = calls + 1
    /\ UNCHANGED <<status, last>>

NewRandomAct ==
    /\ status = "ok"
    /\ calls < MaxMade
    /\ \E h1 \in RandHiddenUnits, coin \in {24, 25} :
         \E h2 \in IF coin < 25 THEN HiddenDraws ELSE {0} :
           /\ pool' = <<NewRandom(h1, coin, h2, calls + 1)>>
           /\ made' = <<[by |-> "new_random", sizes |-> <<>>]>>
    /\ calls' = calls + 1
    /\ UNCHANGED <<status, last>>

InitFactory ==
    /\ pool = <<>>
    /\ made = <<>>
    /\ status = "ok"
    /\ calls = 0
    /\ last = NoCall

NextFactory == FromHiddenSizesAct \/ NewRandomAct

SpecFactory == InitFactory /\ [][NextFactory]_vars

(***************************************************************************)
(* The Genome invariants of the data model.                                *)
(***************************************************************************)
HiddenCount(g) == Len(g) - 1

HiddenWidths(g) == [j \in 1 .. (Len(g) - 1) |-> g[j].out_dim]

Dims(g) == [j \in 1 .. Len(g) |-> <<g[j].in_dim, g[j].out_dim>>]

\* len(weights) = out_dim * in_dim and len(biases) = out_dim, in every layer.
Consistent(g) ==
    \A j \in 1 .. Len(g) :
        /\ Len(g[j].w) = g[j].out_dim * g[j].in_dim
        /\ Len(g[j].b) = g[j].out_dim

\* 16 in, 5 out, and each layer takes what the layer before it gives.
Chained(g) ==
    /\ Len(g) >= 1
    /\ g[1].in_dim = INPUT_DIM
    /\ g[Len(g)].out_dim = OUTPUT_DIM
    /\ \A j \in 2 .. Len(g) : g[j].in_dim = g[j - 1].out_dim

HiddenInBounds(g) ==
    /\ HiddenCount(g) >= 1
    /\ HiddenCount(g) <= MAX_HIDDEN_LAYERS
    /\ \A j \in 1 .. HiddenCount(g) :
          g[j].out_dim >= MIN_HIDDEN_UNITS /\ g[j].out_dim <= MAX_HIDDEN_UNITS

Valid(g) == Chained(g) /\ Consistent(g) /\ HiddenInBounds(g)

\* The latest call returned a child; its template, its other parent, the child.
Returned == last.op = "crossover"

Tpl == pool[IF last.template_is_dad THEN last.dad ELSE last.mom]

Other == pool[IF last.template_is_dad THEN last.mom ELSE last.dad]

Child == pool[last.child]

\* The weight at the code's (o, i) of a layer, read with the layer's stride.
At(layer, o, i) == layer.w[o * layer.in_dim + i + 1]

\* Width growth changed the child in the latest call.
Grew == Returned /\ last.width.fire /\ last.widened # last.mutated

(***************************************************************************)
(* C1.  From two valid genomes, every genome any sequence of               *)
(* crossover_mutate calls builds is valid: 16 in, 5 out, chained           *)
(* dimensions, 1..4 hidden layers of 8..40 units, and blocks of the        *)
(* recorded sizes.                                                         *)
(***************************************************************************)
C1_ChildrenValid == \A j \in 1 .. Len(pool) : Valid(pool[j])

\* A child of a child, built with both structural mutations taking effect.
C1_Witness ==
    /\ Returned /\ calls = MaxCalls
    /\ made[last.mom].by = "crossover"
    /\ Grew /\ last.depth.done
    /\ HiddenCount(Child) = MAX_HIDDEN_LAYERS

(***************************************************************************)
(* C2.  As claimed: every genome a factory builds satisfies every Genome   *)
(* invariant, the hidden-layer count in 1..4 and the widths in 8..40       *)
(* included.                                                               *)
(***************************************************************************)
C2_FactoryValid == \A j \in 1 .. Len(pool) : Valid(pool[j])

(***************************************************************************)
(* C2, amended.  Every genome a factory builds has 16 inputs, 5 outputs,   *)
(* chained dimensions and blocks of the recorded sizes; new_random gives   *)
(* 1 or 2 hidden layers of 8..40 units; from_hidden_sizes gives exactly    *)
(* the hidden widths it was passed, whatever their number and values.      *)
(***************************************************************************)
C2_FactoryShape ==
    \A j \in 1 .. Len(pool) :
        /\ Chained(pool[j]) /\ Consistent(pool[j])
        /\ made[j].by = "new_random" =>
              HiddenInBounds(pool[j]) /\ HiddenCount(pool[j]) <= 2
        /\ made[j].by = "from_hidden_sizes" => HiddenWidths(pool[j]) = made[j].sizes

\* from_hidden_sizes of the empty list: one 16 -> 5 layer, no hidden layer.
C2_Witness ==
    /\ Len(pool) = 1
    /\ made[1].by = "from_hidden_sizes" /\ made[1].sizes = <<>>
    /\ Dims(pool[1]) = << <<INPUT_DIM, OUTPUT_DIM>> >>

(***************************************************************************)
(* C3.  As claimed: no crossover_mutate call on valid parents with         *)
(* parameters in the documented ranges (mutation_mag = 0 included) panics. *)
(***************************************************************************)
C3_NeverPanics == status # "panic"

(***************************************************************************)
(* C4.  No step changes a genome that exists: crossover_mutate leaves      *)
(* every genome of the pool, both parents included, as it was, and the     *)
(* child is stored apart from them.                                        *)
(***************************************************************************)
C4_ParentsUnchanged ==
    [][\A j \in 1 .. Len(pool) : j <= Len(pool') /\ pool'[j] = pool[j]]_vars

\* A call in which width growth and depth growth both changed the child.
C4_Witness ==
    /\ Grew /\ last.depth.done
    /\ last.child = Len(pool)
    /\ Child # Tpl

\* The caller passed mutation_rate = 0, p_add_width = 0 and p_add_depth = 0.
ZeroSettings ==
    /\ Returned
    /\ last.params.mutation_rate = 0
    /\ last.params.p_add_neurons = 0
    /\ last.params.p_add_layer = 0

\* Layer l of the template and of the other parent overlap in rows 0..out-1
\* and columns 0..in-1.
OverlapOut(l) ==
    IF l > Len(Other) THEN 0 ELSE Min(Tpl[l].out_dim, Other[l].out_dim)

OverlapIn(l) ==
    IF l > Len(Other) THEN 0 ELSE Min(Tpl[l].in_dim, Other[l].in_dim)

(***************************************************************************)
(* C5.  With mutation_rate = 0, p_add_width = 0 and p_add_depth = 0 the    *)
(* child has the template's layer count and dimensions, and the template's *)
(* weight and bias at every position outside the overlapping block, so in  *)
(* every layer the other parent does not have.                             *)
(***************************************************************************)
C5_TemplateKept ==
    ZeroSettings =>
        /\ Dims(Child) = Dims(Tpl)
        /\ Consistent(Child)
        /\ \A l \in 1 .. Len(Tpl) :
              /\ \A o \in 0 .. (Tpl[l].out_dim - 1) :
                    /\ o >= OverlapOut(l) => Child[l].b[o + 1] = Tpl[l].b[o + 1]
                    /\ \A i \in 0 .. (Tpl[l].in_dim - 1) :
                          (o >= OverlapOut(l) \/ i >= OverlapIn(l))
                              => At(Child[l], o, i) = At(Tpl[l], o, i)
              /\ l > Len(Other) => Child[l] = Tpl[l]

\* A template deeper and wider than the other parent, some weight blended.
C5_Witness ==
    /\ ZeroSettings
    /\ Len(Tpl) > Len(Other)
    /\ \E l \in 1 .. Len(Other) :
          /\ Tpl[l].in_dim > Other[l].in_dim
          /\ Tpl[l].out_dim > Other[l].out_dim
    /\ Child # Tpl

(***************************************************************************)
(* C6.  With the same settings, in every layer both parents have, the      *)
(* child's weight at (o, i) of the overlapping block is the mean of the    *)
(* template's and the other parent's weight at (o, i), each read with its  *)
(* own row stride, and the child's bias o is the mean of the two biases;   *)
(* for parents of one topology that is the whole block.                    *)
(***************************************************************************)
C6_ExactMean ==
    ZeroSettings =>
        /\ \A l \in 1 .. Min(Len(Tpl), Len(Other)) :
              \A o \in 0 .. (OverlapOut(l) - 1) :
                 /\ 2 * Child[l].b[o + 1] = Tpl[l].b[o + 1] + Other[l].b[o + 1]
                 /\ \A i \in 0 .. (OverlapIn(l) - 1) :
                       2 * At(Child[l], o, i)
                           = At(Tpl[l], o, i) + At(Other[l], o, i)
        /\ Dims(Tpl) = Dims(Other) =>
              \A l \in 1 .. Len(Tpl) :
                 /\ \A k \in 1 .. Len(Tpl[l].w) :
                       2 * Child[l].w[k] = Tpl[l].w[k] + Other[l].w[k]
                 /\ \A k \in 1 .. Len(Tpl[l].b) :
                       2 * Child[l].b[k] = Tpl[l].b[k] + Other[l].b[k]

\* Parents whose second layers have different row strides, the other's the
\* longer, and a blended weight that differs from the template's.
C6_Witness ==
    /\ ZeroSettings
    /\ Len(Other) >= 2
    /\ Other[2].in_dim > Tpl[2].in_dim
    /\ At(Child[2], 1, 1) # At(Tpl[2], 1, 1)

(***************************************************************************)
(* C7.  When width growth runs on hidden layer k, the layer's out_dim does *)
(* not shrink, grows unless it was 40, grows by at most 4, stays at most   *)
(* 40, and the next layer's in_dim is the new out_dim; layer k is a hidden *)
(* layer, never the output layer.                                          *)
(***************************************************************************)
C7_WidthGrowth ==
    (Returned /\ last.width.fire /\ last.width.target >= 0) =>
        LET k == last.width.target + 1
            before == last.mutated
            after == last.widened
        IN /\ k + 1 <= Len(before)
           /\ Len(after) = Len(before)
           /\ after[k].out_dim >= before[k].out_dim
           /\ before[k].out_dim < MAX_HIDDEN_UNITS
                 => after[k].out_dim > before[k].out_dim
           /\ before[k].out_dim = MAX_HIDDEN_UNITS
                 => after[k].out_dim = before[k].out_dim
           /\ after[k].out_dim <= before[k].out_dim + 4
           /\ after[k].out_dim <= MAX_HIDDEN_UNITS
           /\ after[k + 1].in_dim = after[k].out_dim

\* Growth by 4 asked of a layer of 38 units: it grows by 2, to the cap.
C7_Witness ==
    /\ Returned /\ last.width.fire /\ last.width.add = 4
    /\ last.width.target >= 0
    /\ last.mutated[last.width.target + 1].out_dim = MAX_HIDDEN_UNITS - 2
    /\ last.widened[last.width.target + 1].out_dim = MAX_HIDDEN_UNITS

(***************************************************************************)
(* C8.  As claimed: when depth growth runs on a child with H hidden        *)
(* layers, the positions it can draw are all of 0..H, so p = H, right      *)
(* before the output layer, can be chosen.                                 *)
(***************************************************************************)
C8_AllPositions ==
    (Returned /\ last.depth.done) =>
        last.positions = 0 .. HiddenCount(last.widened)

(***************************************************************************)
(* C9.  After depth growth at position pos on a child with H < 4 hidden    *)
(* layers: there are H + 1 <= 4 hidden layers; the inserted layer takes    *)
(* the out_dim of the layer before it (16 at pos = 0) and has 8..40 units; *)
(* the layer that was at pos takes the inserted layer's out_dim, has a     *)
(* weight block of out_dim * that width, and keeps its out_dim and its     *)
(* biases; every other layer is as it was.                                 *)
(***************************************************************************)
C9_DepthGrowth ==
    (Returned /\ last.depth.done) =>
        LET p == last.depth.pos + 1
            before == last.widened
            after == Child
        IN /\ HiddenCount(before) < MAX_HIDDEN_LAYERS
           /\ HiddenCount(after) = HiddenCount(before) + 1
           /\ HiddenCount(after) <= MAX_HIDDEN_LAYERS
           /\ after[p].in_dim = (IF p = 1 THEN INPUT_DIM ELSE after[p - 1].out_dim)
           /\ after[p].out_dim >= MIN_HIDDEN_UNITS
           /\ after[p].out_dim <= MAX_HIDDEN_UNITS
           /\ Len(after[p].w) = after[p].out_dim * after[p].in_dim
           /\ Len(after[p].b) = after[p].out_dim
           /\ after[p + 1].in_dim = after[p].out_dim
           /\ Len(after[p + 1].w) = after[p + 1].out_dim * after[p].out_dim
           /\ after[p + 1].out_dim = before[p].out_dim
           /\ after[p + 1].b = before[p].b
           /\ \A j \in 1 .. Len(before) :
                 /\ j < p => after[j] = before[j]
                 /\ j > p => after[j + 1] = before[j]

\* A layer inserted after a hidden layer whose width differs from its own.
C9_Witness ==
    /\ Returned /\ last.depth.done
    /\ last.depth.pos >= 1
    /\ Child[last.depth.pos + 1].in_dim # Child[last.depth.pos + 1].out_dim
    /\ Child[last.depth.pos + 1].in_dim # INPUT_DIM

\* The latest call's parents are the scenario's: dad = [20], mom = [12, 16].
ScenarioParents ==
    /\ made[last.dad] = [by |-> "from_hidden_sizes", sizes |-> <<20>>]
    /\ made[last.mom] = [by |-> "from_hidden_sizes", sizes |-> <<12, 16>>]

(***************************************************************************)
(* C10.  One crossover_mutate call returns a child with the template's     *)
(* hidden-layer count or one more; width growth leaves the count alone;    *)
(* for dad = [20] and mom = [12, 16] the count is 1, 2 or 3.               *)
(***************************************************************************)
C10_DepthByOne ==
    Returned =>
        /\ HiddenCount(Child) \in {HiddenCount(Tpl), HiddenCount(Tpl) + 1}
        /\ HiddenCount(last.widened) = HiddenCount(Tpl)
        /\ HiddenCount(Child) = HiddenCount(Tpl) + 1 <=> last.depth.done
        /\ ScenarioParents => HiddenCount(Child) \in {1, 2, 3}

\* The scenario's parents, both structural mutations changing the child.
C10_Witness ==
    /\ Returned /\ ScenarioParents
    /\ Grew /\ last.depth.done
    /\ HiddenCount(Child) = 3


(***************************************************************************)
(* Net::forward.  Values are the integers the genome holds: sums and       *)
(* products are exact.                                                     *)
(***************************************************************************)
Max(a, b) == IF a > b THEN a ELSE b

\* acc after n rounds of the inner loop of output unit o (0-based):
\* b[o] + row[0] * a[0] + ... + row[n-1] * a[n-1].
RECURSIVE Acc(_, _, _, _)
Acc(layer, a, o, n) ==
    IF n = 0 THEN layer.b[o + 1]
    ELSE Acc(layer, a, o, n - 1) + layer.w[o * layer.in_dim + n] * a[n]

\* Activate with ReLU on every layer, the last one too.
ActivateAll(li, len, acc) == Max(acc, 0)

\* hidden = ReLU, output (last) = linear; li is the 0-based layer index.
Activate(li, len, acc) == IF li + 1 = len THEN acc ELSE Max(acc, 0)

\* z of layer li for the activations a of the layer before it.
LayerForward(net, li, a) ==
    [o \in 1 .. net[li + 1].out_dim |->
        Activate(li, Len(net), Acc(net[li + 1], a, o - 1, net[li + 1].in_dim))]

\* The value of `a` after each of the layers li, li + 1, ...
RECURSIVE Propagate(_, _, _)
Propagate(net, li, a) ==
    IF li >= Len(net) THEN <<>>
    ELSE LET z == LayerForward(net, li, a)
         IN <<z>> \o Propagate(net, li + 1, z)

Forward(net, x) ==
    LET as == Propagate(net, 0, x)
    IN [i \in 1 .. OUTPUT_DIM |-> as[Len(as)][i]]

\* The input vectors a caller passes, of values in -2 .. 1, and the hidden
\* widths of the genomes it evaluates (deep enough for a first, a middle and
\* a last layer, and the sums stay within TLC's 32-bit integers).
Inputs ==
    {[i \in 1 .. INPUT_DIM |-> ((Mix(s, i) \div 4 + Mix(s, i)) % 4) - 2] :
        s \in 0 .. (NumInputs - 1)}

ForwardSizes == {<<>>, <<20>>, <<12, 16>>, <<8, 8>>}

ForwardAct ==
    /\ status = "ok"
    /\ calls < MaxEvals
    /\ \E n \in 1 .. Len(pool), x \in Inputs :
         \E as \in {Propagate(pool[n], 0, x)} :
           last' = [op |-> "forward", net |-> n, x |-> x, acts |-> as,
                    out |-> Forward(pool[n], x)]
    /\ calls' = calls + 1
    /\ UNCHANGED <<pool, made, status>>

InitForward ==
    /\ \E sizes \in ForwardSizes, seed \in 1 .. 2 :
         /\ pool = <<FromHiddenSizes(sizes, seed)>>
         /\ made = <<[by |-> "from_hidden_sizes", sizes |-> sizes]>>
    /\ status = "ok"
    /\ calls = 0
    /\ last = NoCall

NextForward == ForwardAct

SpecForward == InitForward /\ [][NextForward]_vars

\* The pre-activation of unit o (1-based) of a layer fed the vector a:
\* bias_o + sum_i weight[o, i] * a_i.
PreAct(layer, a, o) ==
    LET S[n \in 0 .. layer.in_dim] ==
            IF n = 0 THEN 0 ELSE S[n - 1] + At(layer, o - 1, n - 1) * a[n]
    IN layer.b[o] + S[layer.in_dim]

\* What layer l (1-based) of the evaluated genome was fed.
FedTo(l) == IF l = 1 THEN last.x ELSE last.acts[l - 1]

Evaluated == last.op = "forward"

\* The latest forward call gave what the claim says of the genome as it is.
ForwardOk ==
    LET net == pool[last.net] IN
    /\ Len(last.acts) = Len(net)
    /\ \A l \in 1 .. (Len(net) - 1) :
          /\ Len(last.acts[l]) = net[l].out_dim
          /\ \A o \in 1 .. net[l].out_dim :
                LET z == PreAct(net[l], FedTo(l), o) IN
                /\ last.acts[l][o] >= 0
                /\ z < 0 => last.acts[l][o] = 0
                /\ z >= 0 => last.acts[l][o] = z
    /\ Len(last.out) = OUTPUT_DIM
    /\ \A o \in 1 .. OUTPUT_DIM :
          last.out[o] = PreAct(net[Len(net)], FedTo(Len(net)), o)

(***************************************************************************)
(* C11.  forward feeds every layer but the last through max(0, z), so a    *)
(* hidden activation is never negative and is 0 where its pre-activation   *)
(* is negative, and returns the last layer's pre-activations as they are,  *)
(* negatives included; the result is that function of the genome and the   *)
(* input, and the call leaves the genome as it was.                        *)
(***************************************************************************)
C11_Forward ==
    [][last'.op = "forward" => (pool' = pool /\ ForwardOk')]_vars

\* A genome with hidden layers: a hidden unit clamped to 0, a negative output.
C11_Witness ==
    /\ Evaluated
    /\ Len(pool[last.net]) >= 3
    /\ \E o \in 1 .. pool[last.net][2].out_dim :
          PreAct(pool[last.net][2], FedTo(2), o) < 0
    /\ \E o \in 1 .. OUTPUT_DIM : last.out[o] < 0
    /\ \E o \in 1 .. OUTPUT_DIM : last.out[o] > 0


(***************************************************************************)
(* C12.  Width growth on hidden layer k keeps every parameter there was:   *)
(* layer k's old weights at their (row, column) and old biases at their    *)
(* index, layer k+1's old weights at their (output, input) under the new   *)
(* row stride, layer k+1's out_dim and biases, and every other layer; the  *)
(* blocks have the new sizes, so only the appended rows, bias entries and  *)
(* columns are new.                                                        *)
(***************************************************************************)
C12_GrowthKeeps ==
    (Returned /\ last.width.fire /\ last.width.target >= 0) =>
        LET k == last.width.target + 1
            before == last.mutated
            after == last.widened
        IN /\ Len(after) = Len(before)
           /\ Consistent(after)
           /\ after[k].in_dim = before[k].in_dim
           /\ \A o \in 0 .. (before[k].out_dim - 1) :
                 /\ after[k].b[o + 1] = before[k].b[o + 1]
                 /\ \A i \in 0 .. (before[k].in_dim - 1) :
                       At(after[k], o, i) = At(before[k], o, i)
           /\ after[k + 1].out_dim = before[k + 1].out_dim
           /\ after[k + 1].b = before[k + 1].b
           /\ \A o \in 0 .. (before[k + 1].out_dim - 1) :
                 \A i \in 0 .. (before[k + 1].in_dim - 1) :
                    At(after[k + 1], o, i) = At(before[k + 1], o, i)
           /\ \A j \in 1 .. Len(before) :
                 (j # k /\ j # k + 1) => after[j] = before[j]

\* Three units added to the first of several hidden layers.
C12_Witness ==
    /\ Grew /\ last.width.target = 0
    /\ Len(last.mutated) >= 3
    /\ last.widened[1].out_dim = last.mutated[1].out_dim + 3
    /\ last.widened[2].in_dim = last.mutated[2].in_dim + 3
    /\ last.widened[2].out_dim >= 2


(***************************************************************************)
(* The recombination system on the edge of the structure bounds: a genome  *)
(* with no hidden layer (from_hidden_sizes of the empty list) and one with *)
(* 4 hidden layers, the first of 40 units.                                 *)
(***************************************************************************)
EdgePools == {<< <<>>, <<40, 8, 8, 8>> >>}

InitEdge ==
    /\ \E sp \in EdgePools :
         /\ pool = [j \in 1 .. Len(sp) |-> FromHiddenSizes(sp[j], j)]
         /\ made = [j \in 1 .. Len(sp) |->
                      [by |-> "from_hidden_sizes", sizes |-> sp[j]]]
    /\ status = "ok"
    /\ calls = 0
    /\ last = NoCall

SpecEdge == InitEdge /\ [][Next]_vars

\* Width growth was triggered on a child with no hidden layer.
WidthOnNoHidden ==
    Returned /\ last.width.fire /\ HiddenCount(last.mutated) = 0

\* Width growth was triggered on a hidden layer that has 40 units.
WidthAtCap ==
    /\ Returned /\ last.width.fire /\ last.width.target >= 0
    /\ last.mutated[last.width.target + 1].out_dim = MAX_HIDDEN_UNITS

\* Depth growth was triggered on a child that has 4 hidden layers.
DepthAtCap ==
    Returned /\ last.depth.fire /\ HiddenCount(last.widened) = MAX_HIDDEN_LAYERS

(***************************************************************************)
(* C13.  The structural no-op cases are skipped: the call returns, and     *)
(* width growth triggered on a child with no hidden layer or on a layer of *)
(* 40 units, and depth growth triggered on a child with 4 hidden layers,   *)
(* leave the child's layers, dimensions, weights and biases as they were   *)
(* before that step.                                                       *)
(***************************************************************************)
C13_NoOps ==
    /\ WidthOnNoHidden => status = "ok" /\ last.widened = last.mutated
    /\ WidthAtCap => status = "ok" /\ last.widened = last.mutated
    /\ DepthAtCap => status = "ok" /\ ~last.depth.done /\ Child = last.widened

\* Width growth triggered on a child of one 16 -> 5 layer.
C13_Witness ==
    /\ WidthOnNoHidden
    /\ Dims(last.widened) = << <<INPUT_DIM, OUTPUT_DIM>> >>
    /\ last.widened # Tpl

\* Width growth at the unit cap and depth growth at the layer cap, one call.
C13_AtCaps == WidthAtCap /\ DepthAtCap /\ last.width.add = 4

====
